---- MODULE Spec2Model ----
(***************************************************************************)
(* CommentTree: a self-referencing table of comments (PostgreSQL), a       *)
(* repository over it, a use-case layer and an HTTP delivery layer.        *)
(*                                                                         *)
(* The table is a sequence of rows in heap order; the repository's         *)
(* queries are operators over it; every handler is one action.  Errors     *)
(* are chains of messages: fmt.Errorf("ctx: %w", e) puts a message in      *)
(* front of the chain of e, errors.Is looks down the chain, and the        *)
(* handlers' `switch err` compares the whole chain.                        *)
(***************************************************************************)
EXTENDS Integers, Sequences, FiniteSets, TLC

VARIABLES rows, nextID, last, flight

vars == <<rows, nextID, last, flight>>

(***************************************************************************)
(* Bounds of the model.                                                    *)
(***************************************************************************)
\* ids the BIGSERIAL sequence hands out before the model stops inserting
MaxID == 2
\* the same, where every comment is created at one instant
MaxDeepID == 3
\* timestamps time.Now() can return
MaxTime == 2
\* rows of a table the read requests are served from
MaxRows == 3
\* page numbers and page sizes a request can ask for
MaxPage == 3
MaxPageSize == 2
\* root comments in a list to sort, comments in a list to paginate
MaxRoots == 3
MaxListLen == 10
\* characters of a content and of a search text where both are free
MaxTextLen == 2

\* a nil *int64 / a NULL parent_id (BIGSERIAL ids start at 1)
Null == 0

Times == 1..MaxTime
\* one instant for every comment
OneInstant == {1}

\* contents are sequences of characters; <<>> is the empty string
Contents == {<<>>, <<"a">>, <<"b">>}

(***************************************************************************)
(* Errors (domain/errors.go) and wrapping.                                 *)
(***************************************************************************)
Nil == <<>>
ErrCommentNotFound == <<"comment not found">>
ErrInvalidParent == <<"invalid parent comment">>
ErrEmptyContent == <<"comment content cannot be empty">>
\* a violated REFERENCES comments(id) constraint, as reported by the driver
ErrForeignKey == <<"violates foreign key constraint">>

\* an error of the driver that is none of the above: a lost connection, a
\* cancelled query, a value that does not scan
ErrStore == <<"store failure">>

\* fmt.Errorf(ctx + ": %w", e)
Wrap(ctx, e) == <<ctx>> \o e

\* errors.Is(e, target): target is e or one of the errors e wraps
ErrorsIs(e, target) ==
    \E i \in 1..Len(e) : SubSeq(e, i, Len(e)) = target

(***************************************************************************)
(* The comments table.                                                     *)
(***************************************************************************)
\* domain.Comment / a row of comments
Comment(id, parent, content, created, updated) ==
    [id |-> id, parent |-> parent, content |-> content,
     created_at |-> created, updated_at |-> updated]

\* the zero value a nil *domain.Comment stands for
NoComment == Comment(0, Null, <<>>, 0, 0)

RowIDs(rs) == {rs[i].id : i \in DOMAIN rs}

RowOf(rs, id) == rs[CHOOSE i \in DOMAIN rs : rs[i].id = id]

\* the rows of rs whose id is in ids, in heap order
RECURSIVE SelectRows(_, _)
SelectRows(rs, ids) ==
    IF rs = <<>> THEN <<>>
    ELSE IF Head(rs).id \in ids THEN <<Head(rs)>> \o SelectRows(Tail(rs), ids)
         ELSE SelectRows(Tail(rs), ids)

\* a comment_tree whose recursive term is evaluated once: the direct replies
CommentTreeOneLevel(rs, acc) ==
    acc \cup {rs[i].id : i \in {j \in DOMAIN rs : rs[j].parent \in acc}}

\* WITH RECURSIVE comment_tree: the ids reached from acc by c.parent_id = ct.id
RECURSIVE CommentTreeCTE(_, _)
CommentTreeCTE(rs, acc) ==
    LET more == {rs[i].id : i \in {j \in DOMAIN rs : rs[j].parent \in acc}}
    IN  IF more \subseteq acc THEN acc ELSE CommentTreeCTE(rs, acc \cup more)

\* the anchor row WHERE id = $1 and everything the recursion adds
SubtreeIDs(rs, id) == CommentTreeCTE(rs, {id} \cap RowIDs(rs))

(***************************************************************************)
(* PostgresRepository.                                                     *)
(***************************************************************************)
\* GetByID: the row, or ErrCommentNotFound on pgx.ErrNoRows
RepoGetByID(rs, id) ==
    IF id \in RowIDs(rs)
    THEN [comment |-> RowOf(rs, id), isNil |-> FALSE, err |-> Nil]
    ELSE [comment |-> NoComment, isNil |-> TRUE, err |-> ErrCommentNotFound]

\* an insert into a table without the REFERENCES comments(id) constraint
RepoCreateUnchecked(rs, id, parent, content, now) ==
    LET c == Comment(id, parent, content, now, now)
    IN  [rows |-> Append(rs, c), comment |-> c, err |-> Nil]

\* an INSERT that stamps updated_at later than created_at
RepoCreateTouched(rs, id, parent, content, now) ==
    IF parent # Null /\ parent \notin RowIDs(rs) \cup {id}
    THEN [rows |-> rs, comment |-> NoComment,
          err |-> Wrap("failed to create comment", ErrForeignKey)]
    ELSE LET c == Comment(id, parent, content, now, now + 1)
         IN  [rows |-> Append(rs, c), comment |-> c, err |-> Nil]

\* Create: INSERT ... RETURNING id, both timestamps set to the same now;
\* the insert is refused when parent_id references no row, the new one counted
RepoCreate(rs, id, parent, content, now) ==
    IF parent # Null /\ parent \notin RowIDs(rs) \cup {id}
    THEN [rows |-> rs, comment |-> NoComment,
          err |-> Wrap("failed to create comment", ErrForeignKey)]
    ELSE LET c == Comment(id, parent, content, now, now)
         IN  [rows |-> Append(rs, c), comment |-> c, err |-> Nil]

\* a DELETE FROM comments WHERE id = $1 that leaves the replies in place
RepoDeleteRowOnly(rs, id) ==
    [rows |-> SelectRows(rs, RowIDs(rs) \ {id}), err |-> Nil,
     affected |-> Cardinality({id} \cap RowIDs(rs))]

\* a Delete whose statement removes the replies and leaves the comment
RepoDeleteRepliesOnly(rs, id) ==
    LET gone == SubtreeIDs(rs, id) \ {id}
    IN  [rows |-> SelectRows(rs, RowIDs(rs) \ gone), err |-> Nil,
         affected |-> Cardinality(gone)]

\* Delete: DELETE FROM comments WHERE id IN (SELECT id FROM comment_tree);
\* affected is the row count of the command tag Exec returns
RepoDelete(rs, id) ==
    LET gone == SubtreeIDs(rs, id)
    IN  [rows |-> SelectRows(rs, RowIDs(rs) \ gone), err |-> Nil,
         affected |-> Cardinality(gone)]

(***************************************************************************)
(* Content search: content ILIKE '%' || query || '%'.                      *)
(***************************************************************************)
\* ILIKE compares without regard to case
Lower(ch) == IF ch = "A" THEN "a" ELSE IF ch = "B" THEN "b" ELSE ch

\* s LIKE p, case-insensitively: % is any run of characters, _ any one
RECURSIVE LikeMatch(_, _)
LikeMatch(p, s) ==
    IF p = <<>> THEN s = <<>>
    ELSE IF Head(p) = "%"
         THEN LikeMatch(Tail(p), s) \/ (s # <<>> /\ LikeMatch(p, Tail(s)))
    ELSE IF Head(p) = "_"
         THEN s # <<>> /\ LikeMatch(Tail(p), Tail(s))
    ELSE /\ s # <<>>
         /\ Lower(Head(s)) = Lower(Head(p))
         /\ LikeMatch(Tail(p), Tail(s))

\* searchPattern := "%" + query + "%"
SearchPattern(query) == <<"%">> \o query \o <<"%">>

\* WHERE content ILIKE $1: the ids of the matching rows
MatchingIDs(rs, query) ==
    {rs[i].id : i \in {j \in DOMAIN rs :
                         LikeMatch(SearchPattern(query), rs[j].content)}}

(***************************************************************************)
(* Ordering and pagination of the root comments.                           *)
(***************************************************************************)
\* Go's int, two's complement; the build has 64 bits, the model IntBits
IntBits == 16
MaxInt == 2^(IntBits - 1) - 1
MinInt == -(2^(IntBits - 1))
WrapInt(x) == ((x - MinInt) % (2^IntBits)) + MinInt

\* sort loops that all compare the way the descending ones do
ShouldSwapDescending(sortBy, order, a, b) ==
    IF sortBy = "created_at" THEN a.created_at < b.created_at
    ELSE a.updated_at < b.updated_at

\* the condition under which one of the four sort loops swaps a[i] and a[j]
ShouldSwap(sortBy, order, a, b) ==
    IF sortBy = "created_at"
    THEN IF order = "desc" THEN a.created_at < b.created_at
         ELSE a.created_at > b.created_at
    ELSE IF order = "desc" THEN a.updated_at < b.updated_at
         ELSE a.updated_at > b.updated_at

Swap(s, i, j) == [s EXCEPT ![i] = s[j], ![j] = s[i]]

\* for j := i + 1; j < len; j++ { if cond(s[i], s[j]) { swap } }
RECURSIVE SortInner(_, _, _, _, _)
SortInner(s, i, j, sortBy, order) ==
    IF j > Len(s) THEN s
    ELSE SortInner(IF ShouldSwap(sortBy, order, s[i], s[j]) THEN Swap(s, i, j)
                   ELSE s,
                   i, j + 1, sortBy, order)

\* for i := 0; i < len-1; i++ { inner loop }
RECURSIVE SortOuter(_, _, _, _)
SortOuter(s, i, sortBy, order) ==
    IF i >= Len(s) THEN s
    ELSE SortOuter(SortInner(s, i, i + 1, sortBy, order), i + 1, sortBy, order)

\* the if/else-if around the four loops: any other sort key leaves the order
SortRoots(roots, sortBy, order) ==
    IF sortBy \in {"created_at", "updated_at"}
    THEN SortOuter(roots, 1, sortBy, order)
    ELSE roots

\* a slice that starts at the first root whatever the page
PaginateFromFirst(sorted, page, pageSize) ==
    LET n == Len(sorted)
        end == WrapInt(pageSize)
    IN  IF end > n THEN [panic |-> FALSE, page |-> sorted]
        ELSE IF end < 0 THEN [panic |-> TRUE, page |-> <<>>]
        ELSE [panic |-> FALSE, page |-> SubSeq(sorted, 1, end)]

\* start := (page-1)*pageSize; end := start+pageSize; the three-way slice.
\* A slice expression with a bound out of range panics.
Paginate(sorted, page, pageSize) ==
    LET n == Len(sorted)
        start == WrapInt((page - 1) * pageSize)
        end == WrapInt(start + pageSize)
    IN  IF start >= n THEN [panic |-> FALSE, page |-> <<>>]
        ELSE IF end > n
        THEN IF start < 0 THEN [panic |-> TRUE, page |-> <<>>]
             ELSE [panic |-> FALSE, page |-> SubSeq(sorted, start + 1, n)]
        ELSE IF start < 0 \/ end < start THEN [panic |-> TRUE, page |-> <<>>]
             ELSE [panic |-> FALSE, page |-> SubSeq(sorted, start + 1, end)]

(***************************************************************************)
(* Tree assembly.  allComments is a Go map: ranging over it visits the     *)
(* comments in any order, so the children of a node come in any order.     *)
(***************************************************************************)
\* the orders in which a range over a map with the entries S can visit them
RECURSIVE IterationOrders(_)
IterationOrders(S) ==
    IF S = {} THEN {<<>>}
    ELSE UNION {{<<x>> \o p : p \in IterationOrders(S \ {x})} : x \in S}

Tree(c, children) == [comment |-> c, children |-> children]

\* a buildTree that does not recurse: the replies of c without their replies
BuildTreeShallow(c, allComments) ==
    LET kids == {d \in allComments : d.parent # Null /\ d.parent = c.id}
    IN  {Tree(c, [i \in DOMAIN order |-> Tree(order[i], <<>>)]) :
            order \in IterationOrders(kids)}

\* a buildTree that hangs every reply it is given under c
BuildTreeEveryReply(c, allComments) ==
    LET kids == {d \in allComments : d.parent # Null /\ d.id # c.id}
    IN  {Tree(c, [i \in DOMAIN order |-> Tree(order[i], <<>>)]) :
            order \in IterationOrders(kids)}

\* buildTree: every tree the recursion can return for comment c
RECURSIVE BuildTree(_, _)
RECURSIVE ForestsOf(_, _)
BuildTree(c, allComments) ==
    LET kids == {d \in allComments : d.parent # Null /\ d.parent = c.id}
    IN  UNION {{Tree(c, ch) : ch \in ForestsOf(order, allComments)} :
               order \in IterationOrders(kids)}

\* one tree per comment of the sequence, in its order
ForestsOf(cs, allComments) ==
    IF cs = <<>> THEN {<<>>}
    ELSE {<<t>> \o rest : t \in BuildTree(Head(cs), allComments),
                          rest \in ForestsOf(Tail(cs), allComments)}

\* a root list that takes every row read
EveryRow(rs) == rs

\* the rows of rs with a NULL parent_id, in the order of rs
RECURSIVE RootRows(_)
RootRows(rs) ==
    IF rs = <<>> THEN <<>>
    ELSE IF Head(rs).parent = Null THEN <<Head(rs)>> \o RootRows(Tail(rs))
         ELSE RootRows(Tail(rs))

RowSet(rs) == {rs[i] : i \in DOMAIN rs}

\* domain.CommentFilter
Filter(parentID, search, page, pageSize, sortBy, order) ==
    [parentID |-> parentID, search |-> search, page |-> page,
     pageSize |-> pageSize, sortBy |-> sortBy, order |-> order]

\* what GetTree and Search hand back: the trees, or an error, or a panic
Trees(ts) == [trees |-> ts, err |-> Nil, panic |-> FALSE]
Panicked == [trees |-> <<>>, err |-> Nil, panic |-> TRUE]

\* the pages of trees built over the comments read
PagesOf(sorted, filter, allComments) ==
    LET pg == Paginate(sorted, filter.page, filter.pageSize)
    IN  IF pg.panic THEN {Panicked}
        ELSE {Trees(ts) : ts \in ForestsOf(pg.page, allComments)}

\* GetTree: every row (parentID nil) or the rows of comment_tree, the roots
\* among them sorted by filter.SortBy and filter.Order, one page of them,
\* a tree for each.  The rows of comment_tree hold at most one root, so the
\* ORDER BY of that query decides nothing GetTree returns.
\* the rows GetTree's query returns
GetTreeRows(rs, parentID) ==
    IF parentID = Null THEN rs ELSE SelectRows(rs, SubtreeIDs(rs, parentID))

\* what GetTree makes of the rows read
GetTreeOfRows(read, filter) ==
    LET sortedRoots == SortRoots(RootRows(read), filter.sortBy, filter.order)
    IN  PagesOf(sortedRoots, filter, RowSet(read))

RepoGetTree(rs, parentID, filter) ==
    GetTreeOfRows(GetTreeRows(rs, parentID), filter)

\* WITH RECURSIVE comment_path: the ids reached from acc by c.id = cp.parent_id
RECURSIVE CommentPathCTE(_, _)
CommentPathCTE(rs, acc) ==
    LET more == {rs[i].parent : i \in {j \in DOMAIN rs : rs[j].id \in acc}}
                    \cap RowIDs(rs)
    IN  IF more \subseteq acc THEN acc ELSE CommentPathCTE(rs, acc \cup more)

\* findRootComment: the row of the path with a NULL parent_id, or the id
\* itself when the query returns no row
FindRootComment(rs, commentID) ==
    LET path == CommentPathCTE(rs, {commentID} \cap RowIDs(rs))
        tops == {id \in path : RowOf(rs, id).parent = Null}
    IN  IF tops = {} THEN commentID ELSE CHOOSE id \in tops : TRUE

\* a rootIDs map that takes the matching rows that are roots and no other
SearchRootIDsOfMatchingRoots(rs, query) ==
    {id \in MatchingIDs(rs, query) : RowOf(rs, id).parent = Null}

\* the rootIDs map Search fills from the matching rows
SearchRootIDs(rs, query) ==
    {IF RowOf(rs, id).parent # Null THEN FindRootComment(rs, id) ELSE id :
        id \in MatchingIDs(rs, query)}

\* a Search that builds the trees over the roots and the matching rows only
RepoSearchMatchingOnly(rs, query, filter) ==
    LET rootIDs == SearchRootIDs(rs, query)
        rootComments == RootRows(SelectRows(rs, rootIDs))
        kept == RowSet(rootComments)
                  \cup RowSet(SelectRows(rs, MatchingIDs(rs, query)))
    IN  IF rootIDs = {} THEN {Trees(<<>>)}
        ELSE PagesOf(SortRoots(rootComments, "created_at", "desc"), filter, kept)

\* Search: the roots of the matching comments out of a read of every row,
\* sorted by the sort key and order after their defaults, one page of them
\* what Search makes of the rootIDs map and the rows of its full read
SearchOfRows(read, rootIDs, filter) ==
    LET sortBy == IF filter.sortBy \notin {"created_at", "updated_at"}
                  THEN "created_at" ELSE filter.sortBy
        order == IF filter.order \notin {"asc", "desc"}
                 THEN "desc" ELSE filter.order
        rootComments == RootRows(SelectRows(read, rootIDs))
    IN  PagesOf(SortRoots(rootComments, sortBy, order), filter, RowSet(read))

RepoSearch(rs, query, filter) ==
    LET rootIDs == SearchRootIDs(rs, query)
    IN  IF rootIDs = {} THEN {Trees(<<>>)}
        ELSE SearchOfRows(rs, rootIDs, filter)

\* a Count whose second query has no WHERE parent_id IS NULL
RepoCountEveryRow(rs, parentID, search) ==
    IF search # <<>> THEN Cardinality(MatchingIDs(rs, search))
    ELSE IF parentID = Null THEN Len(rs)
    ELSE Cardinality(SubtreeIDs(rs, parentID))

\* Count: matching rows, or rows with a NULL parent_id, or rows of comment_tree
RepoCount(rs, parentID, search) ==
    IF search # <<>> THEN Cardinality(MatchingIDs(rs, search))
    ELSE IF parentID = Null THEN Len(RootRows(rs))
    ELSE Cardinality(SubtreeIDs(rs, parentID))

(***************************************************************************)
(* CommentUseCase.                                                         *)
(***************************************************************************)
\* a Create that looks the parent up before it looks at the content
UseCaseCreateLookupFirst(rs, id, parentID, content, now) ==
    LET got == IF parentID # Null THEN RepoGetByID(rs, parentID)
               ELSE [comment |-> NoComment, isNil |-> FALSE, err |-> Nil]
        looked == IF parentID # Null THEN <<"GetByID">> ELSE <<>>
    IN  IF got.err # Nil
        THEN [rows |-> rs, comment |-> NoComment,
              err |-> Wrap("failed to get parent comment", got.err),
              calls |-> looked]
        ELSE IF content = <<>>
        THEN [rows |-> rs, comment |-> NoComment, err |-> ErrEmptyContent,
              calls |-> looked]
        ELSE LET ins == RepoCreate(rs, id, parentID, content, now)
             IN  [rows |-> ins.rows, comment |-> ins.comment, err |-> ins.err,
                  calls |-> Append(looked, "Create")]

\* a Create that leaves the parent to the store's foreign key
UseCaseCreateNoLookup(rs, id, parentID, content, now) ==
    IF content = <<>>
    THEN [rows |-> rs, comment |-> NoComment, err |-> ErrEmptyContent,
          calls |-> <<>>]
    ELSE LET ins == RepoCreate(rs, id, parentID, content, now)
         IN  IF ins.err # Nil
             THEN [rows |-> rs, comment |-> NoComment,
                   err |-> Wrap("failed to create comment", ins.err),
                   calls |-> <<"Create">>]
             ELSE [rows |-> ins.rows, comment |-> ins.comment,
                   err |-> Nil, calls |-> <<"Create">>]

\* Create: the content check, the parent lookup, the insert
UseCaseCreate(rs, id, parentID, content, now) ==
    IF content = <<>>
    THEN [rows |-> rs, comment |-> NoComment, err |-> ErrEmptyContent,
          calls |-> <<>>]
    ELSE LET got == IF parentID # Null THEN RepoGetByID(rs, parentID)
                    ELSE [comment |-> NoComment, isNil |-> FALSE, err |-> Nil]
             looked == IF parentID # Null THEN <<"GetByID">> ELSE <<>>
         IN  IF got.err # Nil
             THEN [rows |-> rs, comment |-> NoComment,
                   err |-> Wrap("failed to get parent comment", got.err),
                   calls |-> looked]
             ELSE IF parentID # Null /\ got.isNil
             THEN [rows |-> rs, comment |-> NoComment, err |-> ErrInvalidParent,
                   calls |-> looked]
             ELSE LET ins == RepoCreate(rs, id, parentID, content, now)
                  IN  IF ins.err # Nil
                      THEN [rows |-> rs, comment |-> NoComment,
                            err |-> Wrap("failed to create comment", ins.err),
                            calls |-> Append(looked, "Create")]
                      ELSE [rows |-> ins.rows, comment |-> ins.comment,
                            err |-> Nil, calls |-> Append(looked, "Create")]

\* a Delete that goes on to the delete whatever the lookup returned
UseCaseDeleteUnchecked(rs, id) ==
    LET del == RepoDelete(rs, id)
    IN  [rows |-> del.rows, err |-> del.err,
         calls |-> <<"GetByID", "Delete">>, affected |-> del.affected]

\* Delete: the existence check, then the subtree delete
UseCaseDelete(rs, id) ==
    LET got == RepoGetByID(rs, id)
    IN  IF got.err # Nil
        THEN [rows |-> rs, err |-> Wrap("failed to get comment", got.err),
              calls |-> <<"GetByID">>, affected |-> 0]
        ELSE LET del == RepoDelete(rs, id)
             IN  IF del.err # Nil
                 THEN [rows |-> rs,
                       err |-> Wrap("failed to delete comment", del.err),
                       calls |-> <<"GetByID", "Delete">>, affected |-> 0]
                 ELSE [rows |-> del.rows, err |-> Nil,
                       calls |-> <<"GetByID", "Delete">>,
                       affected |-> del.affected]

\* a GetTree that leaves an empty sort key as it is
NormalizeFilterKeepSortBy(filter) ==
    [filter EXCEPT
        !.page = IF filter.page <= 0 THEN 1 ELSE filter.page,
        !.pageSize = IF filter.pageSize <= 0 THEN 50 ELSE filter.pageSize,
        !.order = IF filter.order = "" THEN "desc" ELSE filter.order]

\* the defaults GetTree puts into its copy of the filter
DefaultPage == 1
DefaultPageSize == 50

NormalizeFilter(filter) ==
    [filter EXCEPT
        !.page = IF filter.page <= 0 THEN DefaultPage ELSE filter.page,
        !.pageSize = IF filter.pageSize <= 0 THEN DefaultPageSize
                     ELSE filter.pageSize,
        !.sortBy = IF filter.sortBy = "" THEN "created_at" ELSE filter.sortBy,
        !.order = IF filter.order = "" THEN "desc" ELSE filter.order]

\* GetTree: the defaults, then Search when there is a search text
UseCaseGetTree(rs, filter) ==
    LET f == NormalizeFilter(filter)
    IN  IF f.search # <<>> THEN RepoSearch(rs, f.search, f)
        ELSE RepoGetTree(rs, f.parentID, f)

\* GetTotalCount
UseCaseGetTotalCount(rs, parentID, search) == RepoCount(rs, parentID, search)

(***************************************************************************)
(* CommentHandler: the status each handler answers with.                   *)
(***************************************************************************)
StatusOK == 200
StatusCreated == 201
StatusNoContent == 204
StatusBadRequest == 400
StatusNotFound == 404
StatusInternalServerError == 500
\* a panic in the handler: net/http drops the connection, no status is sent
NoStatus == 0

\* Create's `switch err`
CreateStatus(err) ==
    IF err = Nil THEN StatusCreated
    ELSE IF err = ErrEmptyContent THEN StatusBadRequest
    ELSE IF err = ErrInvalidParent THEN StatusBadRequest
    ELSE StatusInternalServerError

\* Delete's `switch err`
DeleteStatus(err) ==
    IF err = Nil THEN StatusNoContent
    ELSE IF err = ErrCommentNotFound THEN StatusNotFound
    ELSE StatusInternalServerError

\* GetTree: the filter the handler fills from the query: page and page_size
\* only when positive, sort_by and order only when one of their two values
HandlerFilter(q) ==
    Filter(q.parentID, q.search,
           IF q.page > 0 THEN q.page ELSE 0,
           IF q.pageSize > 0 THEN q.pageSize ELSE 0,
           IF q.sortBy \in {"created_at", "updated_at"} THEN q.sortBy ELSE "",
           IF q.order \in {"asc", "desc"} THEN q.order ELSE "")

(***************************************************************************)
(* The state machine: one action per handler.                              *)
(***************************************************************************)
NoFilter == Filter(Null, <<>>, 0, 0, "", "")

\* what the last request was and what it was answered with
NoRequest ==
    [op |-> "none", id |-> Null, content |-> <<>>, err |-> Nil,
     calls |-> <<>>, status |-> NoStatus, comment |-> NoComment,
     filter |-> NoFilter, trees |-> <<>>, panic |-> FALSE, total |-> 0,
     page |-> 0, pageSize |-> 0, list |-> <<>>, affected |-> 0,
     fault |-> "none"]

\* the request that is between two of its store calls.  A GET /comments:
\* where it is, the matching rows it has still to find the root of, the
\* rootIDs map, the rows it has read.  A POST /comments or a DELETE: the
\* parent_id or id and the content it came with.  And the deletes committed
\* since it began, each with the table it found.
NoFlight ==
    [pc |-> "idle", filter |-> NoFilter, pending |-> <<>>, rootIDs |-> {},
     reads |-> <<>>, gone |-> <<>>, id |-> Null, content |-> <<>>]

Init ==
    /\ rows = <<>>
    /\ nextID = 1
    /\ last = NoRequest
    /\ flight = NoFlight

Inserts(calls) == "Create" \in {calls[i] : i \in DOMAIN calls}

\* POST /comments {parent_id, content}
Create(maxID, parentID, content, now) ==
    LET out == UseCaseCreate(rows, nextID, parentID, content, now)
    IN  /\ Inserts(out.calls) => nextID <= maxID
        /\ rows' = out.rows
        /\ nextID' = IF Inserts(out.calls) THEN nextID + 1 ELSE nextID
        /\ UNCHANGED flight
        /\ last' = [NoRequest EXCEPT !.op = "Create", !.id = parentID,
                                     !.content = content, !.err = out.err,
                                     !.calls = out.calls,
                                     !.status = CreateStatus(out.err),
                                     !.comment = out.comment]

\* DELETE /comments/{id}
Delete(id) ==
    LET out == UseCaseDelete(rows, id)
    IN  /\ rows' = out.rows
        /\ UNCHANGED <<nextID, flight>>
        /\ last' = [NoRequest EXCEPT !.op = "Delete", !.id = id,
                                     !.err = out.err, !.calls = out.calls,
                                     !.status = DeleteStatus(out.err),
                                     !.affected = out.affected]

\* GET /comments?parent=&search=&page=&page_size=&sort_by=&order=
GetTree(q) ==
    LET filter == HandlerFilter(q)
    IN  \E out \in UseCaseGetTree(rows, filter) :
          /\ UNCHANGED <<rows, nextID, flight>>
          /\ last' =
               IF out.panic
               THEN [NoRequest EXCEPT !.op = "GetTree", !.filter = filter,
                                      !.panic = TRUE]
               ELSE IF out.err # Nil
               THEN [NoRequest EXCEPT !.op = "GetTree", !.filter = filter,
                                      !.err = out.err,
                                      !.status = StatusInternalServerError]
               ELSE [NoRequest EXCEPT
                       !.op = "GetTree", !.filter = filter,
                       !.trees = out.trees, !.status = StatusOK,
                       !.total = UseCaseGetTotalCount(rows, filter.parentID,
                                                      filter.search),
                       !.page = filter.page, !.pageSize = filter.pageSize]

\* a body that is no JSON, a parent or an id that is no integer
BadRequest(op) ==
    /\ UNCHANGED <<rows, nextID, flight>>
    /\ last' = [NoRequest EXCEPT !.op = op, !.status = StatusBadRequest]

\* the search texts, sort parameters and queries the requests are drawn from
Searches == {<<>>, <<"a">>}
SortInputs ==
    {<<"created_at", "asc">>, <<"created_at", "desc">>,
     <<"updated_at", "asc">>, <<"updated_at", "desc">>}
Query(parentID, search, page, pageSize, sort) ==
    Filter(parentID, search, page, pageSize, sort[1], sort[2])
\* no parameter but one: the default page of everything, of a search, of a
\* subtree, and the second page of one
FewQueries(maxID) ==
    {Query(Null, s, 0, 0, <<"", "">>) : s \in Searches}
    \cup {Query(Null, <<>>, 2, 1, <<"", "asc">>)}
    \cup {Query(id, <<>>, 0, 0, <<"", "">>) : id \in {1, maxID + 1}}
\* every page of every size in every order, with and without a search text
ManyQueries ==
    {Query(Null, s, p, z, o) :
        s \in Searches, p \in 1..MaxPage, z \in 1..MaxPageSize, o \in SortInputs}
    \cup {Query(id, s, 0, 0, <<"", "">>) : id \in 0..(MaxRows + 1), s \in Searches}

Step(maxID, times) ==
    \/ \E p \in 0..(maxID + 1), c \in Contents, t \in times :
          Create(maxID, p, c, t)
    \/ \E id \in 1..(maxID + 1) : Delete(id)
    \/ \E q \in FewQueries(maxID) : GetTree(q)
    \/ \E op \in {"CreateBadBody", "DeleteBadID", "GetTreeBadParent"} :
          BadRequest(op)

Next == Step(MaxID, Times)

Spec == Init /\ [][Next]_vars

\* every comment created at one instant, and one comment more
NextDeep == Step(MaxDeepID, OneInstant)

SpecDeep == Init /\ [][NextDeep]_vars

(***************************************************************************)
(* One GET /comments against a table n Creates have filled.                *)
(***************************************************************************)
\* the tables n successful Creates leave: ids 1..n in heap order, every
\* parent older than its child, no empty content, both timestamps the same
Tables(n, contents, times) ==
    {[i \in 1..n |-> Comment(i, par[i], con[i], tim[i], tim[i])] :
        par \in {f \in [1..n -> 0..n] : \A i \in 1..n : f[i] < i},
        con \in [1..n -> contents],
        tim \in [1..n -> times]}

NextRead == last = NoRequest /\ \E q \in ManyQueries : GetTree(q)

\* any contents, every comment created at one instant
InitRead ==
    /\ rows \in UNION {Tables(n, Contents \ {<<>>}, OneInstant) : n \in 0..MaxRows}
    /\ nextID = Len(rows) + 1
    /\ last = NoRequest
    /\ flight = NoFlight

SpecRead == InitRead /\ [][NextRead]_vars

\* any timestamps, every comment with the content the search looks for
InitOrder ==
    /\ rows \in UNION {Tables(n, {<<"a">>}, Times) : n \in 0..MaxRows}
    /\ nextID = Len(rows) + 1
    /\ last = NoRequest
    /\ flight = NoFlight

SpecOrder == InitOrder /\ [][NextRead]_vars

\* requests that leave out any of page, page_size, sort_by and order
PartialQueries ==
    {Query(Null, s, p, z, <<k, d>>) :
        s \in Searches, p \in {0, 2}, z \in {0, 1},
        k \in {"", "updated_at"}, d \in {"", "asc"}}

NextDefaults == last = NoRequest /\ \E q \in PartialQueries : GetTree(q)

SpecDefaults == InitOrder /\ [][NextDefaults]_vars

(***************************************************************************)
(* GET /comments store call by store call, with DELETE /comments/{id}      *)
(* requests served between its calls.  Every statement runs on a pool      *)
(* connection of its own, outside any transaction: it sees the table as    *)
(* it is when it starts, and a DELETE statement commits as a whole.        *)
(***************************************************************************)
\* the answer GetTree writes from what the use case returned
Answered(filter, out, rs) ==
    IF out.panic
    THEN [NoRequest EXCEPT !.op = "GetTree", !.filter = filter, !.panic = TRUE]
    ELSE [NoRequest EXCEPT
            !.op = "GetTree", !.filter = filter,
            !.trees = out.trees, !.status = StatusOK,
            !.total = UseCaseGetTotalCount(rs, filter.parentID, filter.search),
            !.page = filter.page, !.pageSize = filter.pageSize]

\* one set of rows read: the id the query was anchored at, the rows
Read(anchor, read) == [anchor |-> anchor, rows |-> read]

\* the request arrives and runs its first query: GetTree's one query, or
\* Search's WHERE content ILIKE $1 (one request, as in the other read models)
BeginGetTree(q) ==
    LET filter == HandlerFilter(q)
        f == NormalizeFilter(filter)
    IN  /\ flight.pc = "idle"
        /\ last = NoRequest
        /\ UNCHANGED <<rows, nextID, last>>
        /\ flight' =
             IF f.search = <<>>
             THEN [NoFlight EXCEPT
                     !.pc = "build", !.filter = filter,
                     !.reads = <<Read(f.parentID, GetTreeRows(rows, f.parentID))>>]
             ELSE [NoFlight EXCEPT
                     !.pc = "roots", !.filter = filter,
                     !.pending = SelectRows(rows, MatchingIDs(rows, f.search))]

\* Search's loop over the matching rows: findRootComment for a reply
FindRoot ==
    /\ flight.pc = "roots"
    /\ flight.pending # <<>>
    /\ UNCHANGED <<rows, nextID, last>>
    /\ LET m == Head(flight.pending)
           rootID == IF m.parent # Null THEN FindRootComment(rows, m.id)
                     ELSE m.id
       IN  flight' = [flight EXCEPT !.pending = Tail(@),
                                    !.rootIDs = @ \cup {rootID}]

\* Search after the loop: the empty answer, or the read of every row
ReadAll ==
    /\ flight.pc = "roots"
    /\ flight.pending = <<>>
    /\ UNCHANGED <<rows, nextID>>
    /\ IF flight.rootIDs = {}
       THEN /\ last' = Answered(flight.filter, Trees(<<>>), rows)
            /\ flight' = NoFlight
       ELSE /\ UNCHANGED last
            /\ flight' = [flight EXCEPT !.pc = "build",
                                         !.reads = Append(@, Read(Null, rows))]

\* the sort, the page and the trees out of the rows read, then the count
Respond ==
    LET f == NormalizeFilter(flight.filter)
        read == flight.reads[Len(flight.reads)].rows
    IN  /\ flight.pc = "build"
        /\ UNCHANGED <<rows, nextID>>
        /\ \E out \in IF f.search = <<>> THEN GetTreeOfRows(read, f)
                       ELSE SearchOfRows(read, flight.rootIDs, f) :
              last' = Answered(flight.filter, out, rows)
        /\ flight' = NoFlight

\* DELETE /comments/{id} while the GET is between two calls
DeleteDuring(id) ==
    LET out == UseCaseDelete(rows, id)
    IN  /\ flight.pc # "idle"
        /\ rows' = out.rows
        /\ UNCHANGED <<nextID, last>>
        /\ flight' = IF out.err # Nil THEN flight
                     ELSE [flight EXCEPT
                             !.gone = Append(@, [root |-> id, table |-> rows])]

\* the requests that are served with deletes between their calls
FlightQueries ==
    {Query(id, s, 0, 0, <<"", "">>) : id \in 0..MaxRows, s \in Searches}

NextFlight ==
    \/ \E q \in FlightQueries : BeginGetTree(q)
    \/ FindRoot
    \/ ReadAll
    \/ Respond
    \/ \E id \in 1..MaxRows : DeleteDuring(id)

SpecFlight == InitRead /\ [][NextFlight]_vars

(***************************************************************************)
(* POST /comments store call by store call, with DELETE /comments/{id}     *)
(* requests served between the lookup of the parent and the insert.        *)
(***************************************************************************)
\* the request arrives: the content check and the lookup of the parent
BeginCreate(parentID, content) ==
    LET got == RepoGetByID(rows, parentID)
        refused == [NoRequest EXCEPT !.op = "Create", !.id = parentID,
                                     !.content = content]
    IN  /\ flight.pc = "idle"
        /\ last = NoRequest
        /\ UNCHANGED <<rows, nextID>>
        /\ IF content = <<>>
           THEN /\ last' = [refused EXCEPT
                              !.err = ErrEmptyContent,
                              !.status = CreateStatus(ErrEmptyContent)]
                /\ UNCHANGED flight
           ELSE IF parentID # Null /\ got.err # Nil
           THEN LET err == Wrap("failed to get parent comment", got.err)
                IN  /\ last' = [refused EXCEPT
                                  !.err = err, !.calls = <<"GetByID">>,
                                  !.status = CreateStatus(err)]
                    /\ UNCHANGED flight
           ELSE /\ UNCHANGED last
                /\ flight' = [NoFlight EXCEPT !.pc = "insert", !.id = parentID,
                                              !.content = content]

\* the insert, with the table as it is by now
FinishCreate(now) ==
    LET ins == RepoCreate(rows, nextID, flight.id, flight.content, now)
        err == IF ins.err # Nil THEN Wrap("failed to create comment", ins.err)
               ELSE Nil
    IN  /\ flight.pc = "insert"
        /\ rows' = ins.rows
        /\ nextID' = nextID + 1
        /\ flight' = [flight EXCEPT !.pc = "done"]
        /\ last' = [NoRequest EXCEPT
                      !.op = "Create", !.id = flight.id,
                      !.content = flight.content, !.err = err,
                      !.calls = IF flight.id = Null THEN <<"Create">>
                                ELSE <<"GetByID", "Create">>,
                      !.status = CreateStatus(err),
                      !.comment = ins.comment]

\* tables of comments with one content, created at one instant
InitWrites ==
    /\ rows \in UNION {Tables(n, {<<"a">>}, OneInstant) : n \in 0..MaxRows}
    /\ nextID = Len(rows) + 1
    /\ last = NoRequest
    /\ flight = NoFlight

\* Another request's DELETE /comments/{id}, served between the lookup
\* of the parent and the INSERT of POST /comments.
DeleteBeforeInsert(id) ==
    /\ flight.pc = "insert"
    /\ DeleteDuring(id)

NextCreateFlight ==
    \/ \E p \in 0..(MaxRows + 1), c \in Contents : BeginCreate(p, c)
    \/ \E t \in OneInstant : FinishCreate(t)
    \/ \E id \in 1..MaxRows : DeleteBeforeInsert(id)

SpecCreateFlight == InitWrites /\ [][NextCreateFlight]_vars

(***************************************************************************)
(* Requests during which one store step fails: fault names the step, at    *)
(* the row at which a scan fails or before which the iteration breaks.     *)
(***************************************************************************)
Failed(err) == [trees |-> <<>>, err |-> err, panic |-> FALSE]

\* s without its i-th element
DropAt(s, i) == SubSeq(s, 1, i - 1) \o SubSeq(s, i + 1, Len(s))

\* the rows a loop over a result set can get to work on.  After a Scan that
\* failed the loop goes on (`continue`), and the driver either has closed
\* the rows or delivers the rest; a broken iteration ends the loop.
RowsSeen(result, scanFails, iterationBreaks, at) ==
    IF scanFails THEN {DropAt(result, at), SubSeq(result, 1, at - 1)}
    ELSE IF iterationBreaks THEN {SubSeq(result, 1, at - 1)}
    ELSE {result}

\* CommentUseCase.Create when the lookup or the insert fails
UseCaseCreateFailing(rs, id, parentID, content, now, fault) ==
    IF content = <<>> THEN UseCaseCreate(rs, id, parentID, content, now)
    ELSE IF parentID # Null /\ fault = "GetByID"
    THEN [rows |-> rs, comment |-> NoComment,
          err |-> Wrap("failed to get parent comment",
                       Wrap("failed to get comment", ErrStore)),
          calls |-> <<"GetByID">>]
    ELSE IF fault = "Create" /\ (parentID = Null \/ parentID \in RowIDs(rs))
    THEN [rows |-> rs, comment |-> NoComment,
          err |-> Wrap("failed to create comment",
                       Wrap("failed to create comment", ErrStore)),
          calls |-> IF parentID = Null THEN <<"Create">>
                    ELSE <<"GetByID", "Create">>]
    ELSE UseCaseCreate(rs, id, parentID, content, now)

\* CommentUseCase.Delete when the lookup or the delete fails
UseCaseDeleteFailing(rs, id, fault) ==
    IF fault = "GetByID"
    THEN [rows |-> rs,
          err |-> Wrap("failed to get comment",
                       Wrap("failed to get comment", ErrStore)),
          calls |-> <<"GetByID">>, affected |-> 0]
    ELSE IF fault = "Delete" /\ id \in RowIDs(rs)
    THEN [rows |-> rs,
          err |-> Wrap("failed to delete comment",
                       Wrap("failed to delete comment", ErrStore)),
          calls |-> <<"GetByID", "Delete">>, affected |-> 0]
    ELSE UseCaseDelete(rs, id)

\* GetTree when its query, a Scan or the iteration fails: each is returned
RepoGetTreeFailing(rs, parentID, filter, fault, at) ==
    LET read == GetTreeRows(rs, parentID)
    IN  IF fault = "Query"
        THEN {Failed(Wrap("failed to get comment tree", ErrStore))}
        ELSE IF fault = "Scan" /\ at <= Len(read)
        THEN {Failed(Wrap("failed to scan comment", ErrStore))}
        ELSE IF fault = "RowsErr"
        THEN {Failed(Wrap("error iterating rows", ErrStore))}
        ELSE GetTreeOfRows(read, filter)

\* the rows of the search query the loop of Search works on
SearchSeen(rs, query, fault, at) ==
    RowsSeen(SelectRows(rs, MatchingIDs(rs, query)),
             fault = "SearchScan", fault = "SearchRowsErr", at)

\* the rootIDs map out of the rows seen, when findRootComment's query fails
\* for the at-th of them
SearchRootIDsFailing(rs, seen, fault, at) ==
    {IF seen[i].parent = Null THEN seen[i].id
     ELSE IF fault = "FindRoot" /\ i = at THEN seen[i].id
     ELSE FindRootComment(rs, seen[i].id) : i \in DOMAIN seen}

\* Search when a query fails (returned), a Scan fails (`continue`), an
\* iteration breaks (no rows.Err() check) or findRootComment fails
RepoSearchFailing(rs, query, filter, fault, at) ==
    LET AfterLoop(seen) ==
          LET rootIDs == SearchRootIDsFailing(rs, seen, fault, at)
          IN  IF rootIDs = {} THEN {Trees(<<>>)}
              ELSE IF fault = "AllQuery"
              THEN {Failed(Wrap("failed to get all comments", ErrStore))}
              ELSE UNION {SearchOfRows(read, rootIDs, filter) :
                            read \in RowsSeen(rs, fault = "AllScan",
                                              fault = "AllRowsErr", at)}
    IN  IF fault = "SearchQuery"
        THEN {Failed(Wrap("failed to search comments", ErrStore))}
        ELSE UNION {AfterLoop(seen) : seen \in SearchSeen(rs, query, fault, at)}

UseCaseGetTreeFailing(rs, filter, fault, at) ==
    LET f == NormalizeFilter(filter)
    IN  IF f.search # <<>> THEN RepoSearchFailing(rs, f.search, f, fault, at)
        ELSE RepoGetTreeFailing(rs, f.parentID, f, fault, at)

\* the store steps of each operation
CreateFaults == {"GetByID", "Create"}
DeleteFaults == {"GetByID", "Delete"}
GetTreeFaults == {"Query", "Scan", "RowsErr", "Count"}
SearchFaults ==
    {"SearchQuery", "SearchScan", "SearchRowsErr", "FindRoot", "AllQuery",
     "AllScan", "AllRowsErr", "Count"}

\* the request gets as far as the step, with the row at to fail at
GetTreeReaches(rs, filter, fault, at) ==
    LET f == NormalizeFilter(filter)
        matched == SelectRows(rs, MatchingIDs(rs, f.search))
        fullRead == SearchRootIDs(rs, f.search) # {}
    IN  IF f.search = <<>>
        THEN /\ fault \in GetTreeFaults
             /\ fault = "Scan" => at <= Len(GetTreeRows(rs, f.parentID))
             /\ fault = "RowsErr" => at <= Len(GetTreeRows(rs, f.parentID)) + 1
        ELSE /\ fault \in SearchFaults
             /\ fault = "SearchScan" => at <= Len(matched)
             /\ fault = "SearchRowsErr" => at <= Len(matched) + 1
             /\ fault = "FindRoot"
                => at <= Len(matched) /\ matched[at].parent # Null
             /\ fault = "AllQuery" => fullRead
             /\ fault = "AllScan" => fullRead /\ at <= Len(rs)
             /\ fault = "AllRowsErr" => fullRead /\ at <= Len(rs) + 1

\* POST /comments during which a store step fails
CreateFailing(parentID, content, now, fault) ==
    LET out == UseCaseCreateFailing(rows, nextID, parentID, content, now, fault)
    IN  /\ last = NoRequest
        /\ content # <<>>
        /\ fault = "GetByID" => parentID # Null
        /\ fault = "Create" => parentID = Null \/ parentID \in RowIDs(rows)
        /\ rows' = out.rows
        /\ nextID' = IF out.err = Nil THEN nextID + 1 ELSE nextID
        /\ UNCHANGED flight
        /\ last' = [NoRequest EXCEPT !.op = "Create", !.id = parentID,
                                     !.content = content, !.err = out.err,
                                     !.calls = out.calls,
                                     !.status = CreateStatus(out.err),
                                     !.comment = out.comment,
                                     !.fault = fault]

\* DELETE /comments/{id} during which a store step fails
DeleteFailing(id, fault) ==
    LET out == UseCaseDeleteFailing(rows, id, fault)
    IN  /\ last = NoRequest
        /\ fault = "Delete" => id \in RowIDs(rows)
        /\ rows' = out.rows
        /\ UNCHANGED <<nextID, flight>>
        /\ last' = [NoRequest EXCEPT !.op = "Delete", !.id = id,
                                     !.err = out.err, !.calls = out.calls,
                                     !.status = DeleteStatus(out.err),
                                     !.affected = out.affected,
                                     !.fault = fault]

\* GET /comments during which a store step fails
GetTreeFailing(q, fault, at) ==
    LET filter == HandlerFilter(q)
    IN  /\ last = NoRequest
        /\ GetTreeReaches(rows, filter, fault, at)
        /\ UNCHANGED <<rows, nextID, flight>>
        /\ \E out \in UseCaseGetTreeFailing(rows, filter, fault, at) :
              last' =
                IF out.err # Nil
                THEN [NoRequest EXCEPT !.op = "GetTree", !.filter = filter,
                                       !.err = out.err, !.fault = fault,
                                       !.status = StatusInternalServerError]
                ELSE IF fault = "Count"
                THEN [NoRequest EXCEPT
                        !.op = "GetTree", !.filter = filter, !.fault = fault,
                        !.err = Wrap("failed to count comments", ErrStore),
                        !.status = StatusInternalServerError]
                ELSE [Answered(filter, out, rows) EXCEPT !.fault = fault]

NextFault ==
    \/ \E p \in 0..MaxRows, c \in Contents, t \in OneInstant,
          fault \in CreateFaults : CreateFailing(p, c, t, fault)
    \/ \E id \in 1..(MaxRows + 1), fault \in DeleteFaults :
          DeleteFailing(id, fault)
    \/ \E q \in FlightQueries, fault \in GetTreeFaults \cup SearchFaults,
          at \in 1..(MaxRows + 1) : GetTreeFailing(q, fault, at)

SpecFault == InitRead /\ [][NextFault]_vars

(***************************************************************************)
(* buildTree on its own, on any flat set of comments without a cycle.      *)
(***************************************************************************)
\* flat sets of n comments: the parent of a comment is none, an older
\* comment of the set, or a comment that is not in the set
FlatSets(n) ==
    {[i \in 1..n |-> Comment(i, par[i], <<"a">>, 1, 1)] :
        par \in {f \in [1..n -> 0..(n + 1)] :
                   \A i \in 1..n : f[i] < i \/ f[i] = n + 1}}

InitBuild ==
    /\ rows \in UNION {FlatSets(n) : n \in 0..MaxRows}
    /\ nextID = Len(rows) + 1
    /\ last = NoRequest
    /\ flight = NoFlight

\* buildTree(root, allComments) for the i-th comment of the set as root
Build(i) ==
    /\ last = NoRequest
    /\ UNCHANGED <<rows, nextID, flight>>
    /\ \E t \in BuildTree(rows[i], RowSet(rows)) :
          last' = [NoRequest EXCEPT !.op = "BuildTree", !.comment = rows[i],
                                    !.trees = <<t>>]

NextBuild == \E i \in DOMAIN rows : Build(i)

SpecBuild == InitBuild /\ [][NextBuild]_vars

(***************************************************************************)
(* The content match on its own: one stored comment, one search text.      *)
(***************************************************************************)
\* letters in both cases and the two characters LIKE gives a meaning to
Alphabet == {"a", "A", "b", "_", "%"}

Texts == UNION {[1..k -> Alphabet] : k \in 0..MaxTextLen}

InitMatch ==
    /\ rows \in {<<Comment(1, Null, c, 1, 1)>> : c \in Texts \ {<<>>}}
    /\ nextID = Len(rows) + 1
    /\ last = NoRequest
    /\ flight = NoFlight

\* WHERE content ILIKE $1 with "%" + query + "%", as Search and Count run it
SearchByContent(query) ==
    /\ last = NoRequest
    /\ UNCHANGED <<rows, nextID, flight>>
    /\ last' = [NoRequest EXCEPT
                  !.op = "SearchByContent", !.content = query,
                  !.list = SelectRows(rows, MatchingIDs(rows, query)),
                  !.total = RepoCount(rows, Null, query)]

NextMatch == \E query \in Texts \ {<<>>} : SearchByContent(query)

SpecMatch == InitMatch /\ [][NextMatch]_vars

(***************************************************************************)
(* The sort loops and the page slice on their own, on lists of roots.      *)
(***************************************************************************)
\* the lists of n roots GetTree can read: distinct ids, any timestamps
RootLists(n) ==
    {[i \in 1..n |-> Comment(i, Null, <<"a">>, tim[i], tim[i])] :
        tim \in [1..n -> Times]}

InitSort ==
    /\ rows \in UNION {RootLists(n) : n \in 0..MaxRoots}
    /\ nextID = Len(rows) + 1
    /\ last = NoRequest
    /\ flight = NoFlight

\* the sort of GetTree (or of Search) on the list
Sort(sortBy, order) ==
    /\ last = NoRequest
    /\ UNCHANGED <<rows, nextID, flight>>
    /\ last' = [NoRequest EXCEPT
                  !.op = "Sort",
                  !.filter = Filter(Null, <<>>, 0, 0, sortBy, order),
                  !.list = SortRoots(rows, sortBy, order)]

NextSort ==
    \E sortBy \in {"created_at", "updated_at", "id"},
       order \in {"asc", "desc", "up"} : Sort(sortBy, order)

SpecSort == InitSort /\ [][NextSort]_vars

\* a list of n roots, already sorted (oldest first)
InitPage ==
    /\ rows \in {[i \in 1..n |-> Comment(i, Null, <<"a">>, 1, 1)] :
                    n \in 0..MaxListLen}
    /\ nextID = Len(rows) + 1
    /\ last = NoRequest
    /\ flight = NoFlight

\* the page slice of GetTree (or of Search) on the list
Page(page, pageSize) ==
    LET pg == Paginate(rows, page, pageSize)
    IN  /\ last = NoRequest
        /\ UNCHANGED <<rows, nextID, flight>>
        /\ last' = [NoRequest EXCEPT
                      !.op = "Paginate", !.page = page, !.pageSize = pageSize,
                      !.panic = pg.panic, !.list = pg.page]

\* page numbers and sizes from 1 up, the default size, and numbers whose
\* product with a size is beyond MaxInt
PageNumbers == (1..MaxPage) \cup {2^(IntBits - 3), 2^(IntBits - 3) + 1}
PageSizes == (1..MaxPageSize) \cup {5, 8, DefaultPageSize}

NextPage == \E p \in PageNumbers, z \in PageSizes : Page(p, z)

SpecPage == InitPage /\ [][NextPage]_vars

(***************************************************************************)
(* What the claims are stated with.                                        *)
(***************************************************************************)
\* x is a, or a is reached from x by following parent_id, in at most fuel steps
RECURSIVE ClimbsTo(_, _, _, _)
ClimbsTo(rs, x, a, fuel) ==
    IF x = a THEN TRUE
    ELSE IF fuel = 0 \/ x \notin RowIDs(rs) THEN FALSE
    ELSE LET up == RowOf(rs, x).parent
         IN  up # Null /\ ClimbsTo(rs, up, a, fuel - 1)

\* x is a or a transitive descendant of a
InSubtreeOf(rs, a, x) == ClimbsTo(rs, x, a, Len(rs))

StoreCalls(calls) == {calls[i] : i \in DOMAIN calls}

(***************************************************************************)
(* C1  Create with a non-empty content and a parentID that references no   *)
(* stored record fails with the InvalidParent error.                       *)
(* Stated as the claim has it; Create returns the wrapped not-found error  *)
(* of the lookup instead.                                                  *)
(***************************************************************************)
C1_InvalidParent ==
    (/\ last.op = "Create"
     /\ last.content # <<>>
     /\ last.id # Null
     /\ last.id \notin RowIDs(rows))
    => ErrorsIs(last.err, ErrInvalidParent)

(***************************************************************************)
(* C2  Create with an empty content fails with EmptyContent whatever the   *)
(* parentID, before any store step: no lookup, no insert, and the table    *)
(* and the id sequence are as they were.                                   *)
(***************************************************************************)
C2_EmptyContentFirst ==
    [][(last'.op = "Create" /\ last'.content = <<>>)
       => /\ last'.err = ErrEmptyContent
          /\ last'.calls = <<>>
          /\ rows' = rows
          /\ nextID' = nextID]_vars

\* an empty content sent with the id of a stored comment as its parent
C2_Witness ==
    /\ last.op = "Create"
    /\ last.content = <<>>
    /\ last.id \in RowIDs(rows)
    /\ last.err = ErrEmptyContent

(***************************************************************************)
(* C3  After a successful Delete(id) of a stored record, id and every      *)
(* transitive descendant of id are gone (GetByID fails with NotFound), and *)
(* every other record is still stored, with the parent, content and        *)
(* timestamps it had.                                                      *)
(***************************************************************************)
C3_DeleteSubtree ==
    [][(last'.op = "Delete" /\ last'.err = Nil /\ last'.id \in RowIDs(rows))
       => /\ \A x \in RowIDs(rows) :
               InSubtreeOf(rows, last'.id, x)
               => /\ x \notin RowIDs(rows')
                  /\ RepoGetByID(rows', x).err = ErrCommentNotFound
          /\ \A i \in DOMAIN rows :
               ~InSubtreeOf(rows, last'.id, rows[i].id)
               => \E j \in DOMAIN rows' : rows'[j] = rows[i]
          /\ RowSet(rows') \subseteq RowSet(rows)]_vars

\* a delete that took a comment and a reply with it and left another record
C3_Witness ==
    /\ last.op = "Delete"
    /\ last.err = Nil
    /\ last.affected >= 2
    /\ rows # <<>>

(***************************************************************************)
(* C4  Delete(id) of an id that is not stored returns the NotFound error   *)
(* (the error of the existence check, wrapped), issues no delete to the    *)
(* store and leaves the table unchanged.                                   *)
(***************************************************************************)
C4_DeleteMissing ==
    [][(last'.op = "Delete" /\ last'.id \notin RowIDs(rows))
       => /\ ErrorsIs(last'.err, ErrCommentNotFound)
          /\ "Delete" \notin StoreCalls(last'.calls)
          /\ last'.calls = <<"GetByID">>
          /\ rows' = rows]_vars

\* a delete of an id that is not in a table that holds other records
C4_Witness ==
    /\ last.op = "Delete"
    /\ last.id \notin RowIDs(rows)
    /\ last.err # Nil
    /\ rows # <<>>

(***************************************************************************)
(* C5  DELETE /comments/{id} with an id that is not stored is answered     *)
(* with 404 Not Found.                                                     *)
(* Stated as the claim has it; the handler compares the wrapped error with *)
(* ErrCommentNotFound itself and answers 500.                              *)
(***************************************************************************)
C5_DeleteMissingIs404 ==
    (/\ last.op = "Delete"
     /\ last.err # Nil
     /\ last.id \notin RowIDs(rows))
    => last.status = StatusNotFound

(***************************************************************************)
(* What the claims about GET /comments are stated with.                    *)
(***************************************************************************)
\* the ids of the comments of a tree
RECURSIVE TreeIDs(_)
TreeIDs(t) ==
    {t.comment.id} \cup UNION {TreeIDs(t.children[i]) : i \in DOMAIN t.children}

\* the ids of the roots of a sequence of trees, in its order
TopIDs(ts) == [i \in DOMAIN ts |-> ts[i].comment.id]

\* the ids of the stored records with a null parent
StoredRootIDs == {rows[i].id : i \in {j \in DOMAIN rows : rows[j].parent = Null}}

\* the roots GetForest returns for the filter with page p (the order of the
\* replies differs between its results, the roots do not)
PageTopIDs(filter, p) ==
    TopIDs((CHOOSE out \in UseCaseGetTree(rows, [filter EXCEPT !.page = p]) :
              TRUE).trees)

\* the roots of pages p, p+1, ..., n of the filter, one after the other
RECURSIVE ConcatPages(_, _, _)
ConcatPages(filter, p, n) ==
    IF p > n THEN <<>>
    ELSE PageTopIDs(filter, p) \o ConcatPages(filter, p + 1, n)

Served == last.op = "GetTree" /\ last.status = StatusOK

(***************************************************************************)
(* C6  With no rootID and no search text, the top-level entries of all     *)
(* pages, one page after the other, are exactly the stored records with a  *)
(* null parent, each exactly once; no record with a parent is a top-level  *)
(* entry.  (The page served is the page of its number.)                    *)
(***************************************************************************)
C6_PagesAreTheRoots ==
    (Served /\ last.filter.parentID = Null /\ last.filter.search = <<>>)
    => LET all == ConcatPages(last.filter, 1, Len(rows) + 1)
           p == IF last.filter.page <= 0 THEN 1 ELSE last.filter.page
       IN  /\ TopIDs(last.trees) = PageTopIDs(last.filter, p)
           /\ \A k \in DOMAIN all : all[k] \in StoredRootIDs
           /\ \A id \in StoredRootIDs :
                Cardinality({k \in DOMAIN all : all[k] = id}) = 1

\* the second page, of size one, of a table with a reply in it
C6_Witness ==
    /\ Served
    /\ last.filter.parentID = Null /\ last.filter.search = <<>>
    /\ last.filter.page = 2 /\ last.filter.pageSize = 1
    /\ Len(last.trees) = 1
    /\ \E i \in DOMAIN rows : rows[i].parent # Null

(***************************************************************************)
(* C7  Page and page size limit the number of top-level trees only: every  *)
(* tree GetForest returns, plain or search, on any page of any size, holds *)
(* all stored transitive descendants of its root.                          *)
(***************************************************************************)
C7_TreesAreWhole ==
    Served
    => /\ \A i \in DOMAIN last.trees :
            \A x \in RowIDs(rows) :
               InSubtreeOf(rows, last.trees[i].comment.id, x)
               => x \in TreeIDs(last.trees[i])
       /\ last.filter.pageSize >= 1 => Len(last.trees) <= last.filter.pageSize

\* a search served with pages of one tree, and the tree has replies to replies
C7_Witness ==
    /\ Served
    /\ last.filter.search # <<>>
    /\ last.filter.pageSize = 1
    /\ \E i \in DOMAIN last.trees :
          \E j \in DOMAIN last.trees[i].children :
             last.trees[i].children[j].children # <<>>

(***************************************************************************)
(* C8  For a page number p >= 1 and a page size s >= 1 the page of the     *)
(* sorted list L is L[(p-1)*s .. min(len(L), p*s)), empty and without an   *)
(* error when (p-1)*s >= len(L).                                           *)
(* Stated as the claim has it; (p-1)*s and start+s are computed in int and *)
(* wrap around (C28).                                                      *)
(***************************************************************************)
ExpectedPage(L, p, s) ==
    LET lo == (p - 1) * s
        hi == IF p * s < Len(L) THEN p * s ELSE Len(L)
    IN  IF lo >= Len(L) THEN <<>> ELSE SubSeq(L, lo + 1, hi)

C8_PageIsTheSlice ==
    (last.op = "Paginate" /\ last.page >= 1 /\ last.pageSize >= 1)
    => /\ ~last.panic
       /\ last.list = ExpectedPage(rows, last.page, last.pageSize)

(***************************************************************************)
(* C9  For a sort key in {created_at, updated_at} and a direction in       *)
(* {asc, desc} the trees of every page are ordered by their root's         *)
(* timestamp (non-decreasing for asc, non-increasing for desc), and every  *)
(* root of page n precedes or ties every root of page n+1.                 *)
(***************************************************************************)
SortKey(sortBy, c) ==
    IF sortBy = "updated_at" THEN c.updated_at ELSE c.created_at

InOrder(sortBy, order, a, b) ==
    IF order = "asc" THEN SortKey(sortBy, a) <= SortKey(sortBy, b)
    ELSE SortKey(sortBy, a) >= SortKey(sortBy, b)

C9_PagesAreOrdered ==
    (/\ Served
     /\ last.filter.sortBy \in {"created_at", "updated_at"}
     /\ last.filter.order \in {"asc", "desc"}
     /\ last.filter.page >= 1 /\ last.filter.pageSize >= 1)
    => LET f == last.filter
           ts == last.trees
       IN  /\ \A i, j \in DOMAIN ts :
                i < j => InOrder(f.sortBy, f.order, ts[i].comment, ts[j].comment)
           /\ \A next \in UseCaseGetTree(rows, [f EXCEPT !.page = f.page + 1]) :
                ~next.panic
                => \A i \in DOMAIN ts, j \in DOMAIN next.trees :
                      InOrder(f.sortBy, f.order, ts[i].comment,
                              next.trees[j].comment)

\* an ascending page of two roots that the table holds newest first
C9_Witness ==
    /\ Served
    /\ last.filter.order = "asc"
    /\ last.filter.sortBy \in {"created_at", "updated_at"}
    /\ Len(last.trees) = 2
    /\ last.trees[1].comment.created_at < last.trees[2].comment.created_at
    /\ last.trees[1].comment.id > last.trees[2].comment.id

(***************************************************************************)
(* C10  The root ordering is stable: two roots with the same value of the  *)
(* sort key are, after the sort, in the relative order they had before it, *)
(* for every list and both directions.                                     *)
(* Stated as the claim has it; the exchange sort of GetTree and Search     *)
(* moves a root past its equals.                                           *)
(***************************************************************************)
PositionOf(list, id) == CHOOSE k \in DOMAIN list : list[k].id = id

C10_SortIsStable ==
    (/\ last.op = "Sort"
     /\ last.filter.sortBy \in {"created_at", "updated_at"}
     /\ last.filter.order \in {"asc", "desc"})
    => \A i, j \in DOMAIN rows :
          (/\ i < j
           /\ SortKey(last.filter.sortBy, rows[i])
                = SortKey(last.filter.sortBy, rows[j]))
          => PositionOf(last.list, rows[i].id) < PositionOf(last.list, rows[j].id)

(***************************************************************************)
(* C11  GetForest with page <= 0, pageSize <= 0, an empty sort key or an   *)
(* empty direction returns what the call returns that has page 1, page     *)
(* size 50, sort key created_at and direction desc in the place of each    *)
(* missing or non-positive field.                                          *)
(***************************************************************************)
Substituted(filter) ==
    Filter(filter.parentID, filter.search,
           IF filter.page <= 0 THEN 1 ELSE filter.page,
           IF filter.pageSize <= 0 THEN 50 ELSE filter.pageSize,
           IF filter.sortBy = "" THEN "created_at" ELSE filter.sortBy,
           IF filter.order = "" THEN "desc" ELSE filter.order)

\* the filter of the last request with a negative page, a negative page size
Negative(filter) ==
    {[filter EXCEPT !.page = -1], [filter EXCEPT !.pageSize = -1]}

C11_DefaultsSubstituted ==
    (Served /\ last.filter # Substituted(last.filter))
    => /\ \E out \in UseCaseGetTree(rows, Substituted(last.filter)) :
             ~out.panic /\ out.err = Nil /\ out.trees = last.trees
       /\ \A g \in Negative(last.filter) :
             UseCaseGetTree(rows, g) = UseCaseGetTree(rows, Substituted(g))

\* a request with no page, size, sort key and direction, answered with two
\* roots, the newer one first, out of a table that holds the older one first
C11_Witness ==
    /\ Served
    /\ last.filter = Filter(Null, <<>>, 0, 0, "", "")
    /\ Len(last.trees) = 2
    /\ last.trees[1].comment.created_at > last.trees[2].comment.created_at
    /\ last.trees[1].comment.id > last.trees[2].comment.id

(***************************************************************************)
(* C12  For every stored root R, GetForest with rootID = R, page 1 and no  *)
(* search text returns exactly one tree; its root is R and its nodes are   *)
(* R and the records reached from R by child edges, each once, and no      *)
(* other record.                                                           *)
(***************************************************************************)
\* the number of nodes of a tree
RECURSIVE TreeSize(_)
TreeSize(t) ==
    LET RECURSIVE Sum(_)
        Sum(n) == IF n = 0 THEN 0 ELSE TreeSize(t.children[n]) + Sum(n - 1)
    IN  1 + Sum(Len(t.children))

C12_SubtreeOfRoot ==
    (/\ Served
     /\ last.filter.search = <<>>
     /\ last.filter.page <= 1
     /\ last.filter.parentID \in StoredRootIDs)
    => LET R == last.filter.parentID
           reach == {x \in RowIDs(rows) : InSubtreeOf(rows, R, x)}
       IN  /\ Len(last.trees) = 1
           /\ last.trees[1].comment = RowOf(rows, R)
           /\ TreeIDs(last.trees[1]) = reach
           /\ TreeSize(last.trees[1]) = Cardinality(reach)

\* the subtree of a root that has a reply with a reply
C12_Witness ==
    /\ Served
    /\ last.filter.search = <<>>
    /\ last.filter.parentID \in StoredRootIDs
    /\ Len(last.trees) = 1
    /\ TreeSize(last.trees[1]) = 3
    /\ \E j \in DOMAIN last.trees[1].children :
          last.trees[1].children[j].children # <<>>

(***************************************************************************)
(* C13  For a search, the roots of all pages, one page after the other,    *)
(* are exactly the roots that are the topmost ancestor of at least one     *)
(* matching record (a matching root is its own topmost ancestor), each     *)
(* exactly once, however many records of its thread match.                 *)
(***************************************************************************)
\* the roots with a record matching the search text in their thread
RootsOfMatches(query) ==
    {r \in StoredRootIDs :
        \E m \in MatchingIDs(rows, query) : InSubtreeOf(rows, r, m)}

C13_SearchRoots ==
    (Served /\ last.filter.search # <<>>)
    => LET all == ConcatPages(last.filter, 1, Len(rows) + 1)
           want == RootsOfMatches(last.filter.search)
       IN  /\ \A k \in DOMAIN all : all[k] \in want
           /\ \A r \in want : Cardinality({k \in DOMAIN all : all[k] = r}) = 1

\* a search served from a thread whose root does not match and two of whose
\* replies do
C13_Witness ==
    /\ Served
    /\ last.filter.search # <<>>
    /\ Len(last.trees) = 1
    /\ last.trees[1].comment.id \notin MatchingIDs(rows, last.filter.search)
    /\ Cardinality(MatchingIDs(rows, last.filter.search)
                   \cap TreeIDs(last.trees[1])) = 2

(***************************************************************************)
(* C14  Every tree a search returns holds all stored descendants of its    *)
(* root, the records whose content does not match among them: every        *)
(* stored reply to the root is one of the tree's children, and every       *)
(* stored record of the thread is a node of the tree, as it is stored.     *)
(***************************************************************************)
\* the comments of a tree
RECURSIVE TreeComments(_)
TreeComments(t) ==
    {t.comment}
    \cup UNION {TreeComments(t.children[i]) : i \in DOMAIN t.children}

C14_SearchTreesAreWhole ==
    (Served /\ last.filter.search # <<>>)
    => \A i \in DOMAIN last.trees :
          LET t == last.trees[i]
          IN  \A k \in DOMAIN rows :
                 /\ rows[k].parent = t.comment.id
                    => \E j \in DOMAIN t.children :
                          t.children[j].comment = rows[k]
                 /\ InSubtreeOf(rows, t.comment.id, rows[k].id)
                    => rows[k] \in TreeComments(t)

\* root A matches, its reply B does not, and B is a child of the tree of A
C14_Witness ==
    /\ Served
    /\ last.filter.search = <<"a">>
    /\ \E i \in DOMAIN last.trees :
          /\ last.trees[i].comment.content = <<"a">>
          /\ \E j \in DOMAIN last.trees[i].children :
                last.trees[i].children[j].comment.content = <<"b">>

(***************************************************************************)
(* C15  SearchByContent(P) selects exactly the stored records whose        *)
(* content contains P as a literal substring, letters compared without     *)
(* regard to case, for every P over the content alphabet, '%' and '_'      *)
(* included.                                                               *)
(* Stated as the claim has it; the search text goes into the ILIKE         *)
(* pattern as it is, where '%' and '_' are wildcards.                      *)
(***************************************************************************)
Lowered(s) == [i \in DOMAIN s |-> Lower(s[i])]

\* p occurs in s, character for character
Contains(s, p) ==
    \E i \in 0..(Len(s) - Len(p)) :
       \A k \in 1..Len(p) : Lowered(s)[i + k] = Lowered(p)[k]

C15_LiteralSubstring ==
    last.op = "SearchByContent"
    => /\ RowIDs(last.list)
            = {rows[i].id : i \in {j \in DOMAIN rows :
                                     Contains(rows[j].content, last.content)}}
       /\ last.total = Cardinality(RowIDs(last.list))

(***************************************************************************)
(* C16  GetTotalCount(rootID, search) is: with a search text, the number   *)
(* of distinct matching records, whatever rootID is; else, with a rootID,  *)
(* the number of records of rootID's subtree, rootID included, and 0 when  *)
(* rootID is not stored; else the number of records with a null parent,    *)
(* not the number of all records.                                          *)
(***************************************************************************)
C16_TotalCount ==
    Served
    => last.total =
         IF last.filter.search # <<>>
         THEN Cardinality({i \in DOMAIN rows :
                             rows[i].id \in MatchingIDs(rows, last.filter.search)})
         ELSE IF last.filter.parentID # Null
         THEN IF last.filter.parentID \notin RowIDs(rows) THEN 0
              ELSE Cardinality({i \in DOMAIN rows :
                      InSubtreeOf(rows, last.filter.parentID, rows[i].id)})
         ELSE Cardinality({i \in DOMAIN rows : rows[i].parent = Null})

\* no search text and no rootID: fewer roots counted than records stored
C16_Witness ==
    /\ Served
    /\ last.filter.search = <<>>
    /\ last.filter.parentID = Null
    /\ last.total >= 1
    /\ last.total < Len(rows)

(***************************************************************************)
(* C17  GetForest is deterministic on an unchanged store: a call that      *)
(* follows a call with the same filter, with no write between the two,     *)
(* returns the same trees in the same order, with the same children in     *)
(* the same order at every level.                                          *)
(* Stated as the claim has it; buildTree collects the children of a node   *)
(* by ranging over a map, in an order that differs from call to call.      *)
(***************************************************************************)
C17_Deterministic ==
    [][(/\ last.op = "GetTree" /\ last.status = StatusOK
        /\ last'.op = "GetTree" /\ last'.status = StatusOK
        /\ last'.filter = last.filter
        /\ rows' = rows)
       => last'.trees = last.trees]_vars

(***************************************************************************)
(* C18  In every state a sequence of Create and Delete calls reaches, the  *)
(* parent relation is acyclic: from every stored record, following         *)
(* parent_id reaches a record with a null parent in at most as many steps  *)
(* as there are stored records.                                            *)
(***************************************************************************)
\* from the record x, a record with a null parent is at most fuel steps up
RECURSIVE ReachesRoot(_, _, _)
ReachesRoot(rs, x, fuel) ==
    IF x \notin RowIDs(rs) THEN FALSE
    ELSE IF RowOf(rs, x).parent = Null THEN TRUE
    ELSE fuel > 0 /\ ReachesRoot(rs, RowOf(rs, x).parent, fuel - 1)

C18_Acyclic ==
    \A i \in DOMAIN rows :
       /\ ReachesRoot(rows, rows[i].id, Len(rows))
       /\ rows[i].parent # rows[i].id
       /\ rows[i].parent # Null => rows[i].parent < rows[i].id

\* creates and a delete have left a reply stored under its parent
C18_Witness ==
    /\ last.op = "Delete"
    /\ last.err = Nil
    /\ last.affected >= 1
    /\ \E i, j \in DOMAIN rows : rows[i].parent = rows[j].id

(***************************************************************************)
(* C19  A reader running concurrently with Delete(R) never observes a      *)
(* partially deleted subtree: every set of rows read by GetForest, or by   *)
(* the full read of the search path, holds every record of R's subtree or  *)
(* none of them, never R without its descendants or descendants without R. *)
(* (A read anchored at a reply below R asks for a part of R's subtree.)    *)
(***************************************************************************)
\* the ids of the subtree the g-th delete of the flight removed
GoneIDs(g) ==
    LET d == flight.gone[g]
    IN  {x \in RowIDs(d.table) : InSubtreeOf(d.table, d.root, x)}

C19_AllOrNothing ==
    \A k \in DOMAIN flight.reads, g \in DOMAIN flight.gone :
       LET read == RowIDs(flight.reads[k].rows)
           D == GoneIDs(g)
       IN  \/ flight.reads[k].anchor \in D \ {flight.gone[g].root}
           \/ D \subseteq read
           \/ D \cap read = {}

\* a search whose full read came after the delete of a thread of two records
\* that its first query had found
C19_Witness ==
    /\ flight.pc = "build"
    /\ flight.filter.search # <<>>
    /\ Len(flight.gone) = 1
    /\ Cardinality(GoneIDs(1)) >= 2
    /\ flight.reads[1].rows # <<>>
    /\ GoneIDs(1) \cap RowIDs(flight.reads[1].rows) = {}

(***************************************************************************)
(* C20  Every store failure during Create, GetForest (plain or search),    *)
(* Delete or GetTotalCount is returned to the caller as an error: no       *)
(* request is answered with success after one of its store steps (query,   *)
(* row scan, row iteration, root lookup) has failed.                       *)
(* Stated as the claim has it; Search skips a row whose Scan fails, does   *)
(* not look at rows.Err(), and findRootComment answers a failed query      *)
(* with the id it was given.                                               *)
(***************************************************************************)
C20_FailuresReturned ==
    last.fault # "none"
    => /\ last.err # Nil
       /\ last.status \notin {StatusOK, StatusCreated, StatusNoContent}

(***************************************************************************)
(* C21  BuildTree(root, allRecords), for a flat set without cycles,        *)
(* terminates and returns a tree in which every record of allRecords that  *)
(* reaches root by following parent links appears exactly once, each as a  *)
(* child of the node holding its parent, and in which no record that does  *)
(* not reach root appears.                                                 *)
(***************************************************************************)
\* every child of every node of the tree names the node as its parent
RECURSIVE WellNested(_)
WellNested(t) ==
    \A i \in DOMAIN t.children :
       /\ t.children[i].comment.parent = t.comment.id
       /\ WellNested(t.children[i])

C21_BuildTree ==
    last.op = "BuildTree"
    => LET t == last.trees[1]
           reach == {x \in RowIDs(rows) : InSubtreeOf(rows, last.comment.id, x)}
       IN  /\ t.comment = last.comment
           /\ TreeIDs(t) = reach
           /\ TreeSize(t) = Cardinality(reach)
           /\ TreeComments(t) \subseteq RowSet(rows)
           /\ WellNested(t)

\* a tree of three levels, built under a root whose own parent is not in
\* the set
C21_Witness ==
    /\ last.op = "BuildTree"
    /\ TreeSize(last.trees[1]) = 3
    /\ \E j \in DOMAIN last.trees[1].children :
          last.trees[1].children[j].children # <<>>
    /\ \E i \in DOMAIN rows :
          rows[i].parent # Null /\ rows[i].parent \notin RowIDs(rows)

(***************************************************************************)
(* C22  For every stored record N that has a parent, GetForest with        *)
(* rootID = N, page 1 and no search text returns exactly one tree, rooted  *)
(* at N, whose nodes are N and its transitive descendants; the number of   *)
(* its nodes is GetTotalCount(rootID = N).                                 *)
(* Stated as the claim has it; GetTree takes as roots the rows it read     *)
(* that have no parent, and the subtree of a reply holds none.             *)
(***************************************************************************)
C22_SubtreeOfReply ==
    (/\ Served
     /\ last.filter.search = <<>>
     /\ last.filter.page <= 1
     /\ last.filter.parentID \in RowIDs(rows) \ StoredRootIDs)
    => LET N == last.filter.parentID
           reach == {x \in RowIDs(rows) : InSubtreeOf(rows, N, x)}
       IN  /\ Len(last.trees) = 1
           /\ last.trees[1].comment = RowOf(rows, N)
           /\ TreeIDs(last.trees[1]) = reach
           /\ TreeSize(last.trees[1]) = last.total

(***************************************************************************)
(* C23  Under every interleaving of Create and Delete calls, with the      *)
(* parent-existence check and the insert of Create as separate store       *)
(* steps, every stored record with a non-null parent_id references a       *)
(* stored record; a Create whose parent is deleted between its check and   *)
(* its insert stores nothing and returns an error.                         *)
(***************************************************************************)
C23_ParentStored ==
    /\ \A i \in DOMAIN rows :
          rows[i].parent # Null => rows[i].parent \in RowIDs(rows)
    /\ (/\ flight.pc = "done"
        /\ last.op = "Create"
        /\ \E g \in DOMAIN flight.gone : last.id \in GoneIDs(g))
       => /\ last.err # Nil
          /\ last.comment = NoComment
          /\ nextID - 1 \notin RowIDs(rows)
          /\ \A i \in DOMAIN rows : rows[i].parent # last.id

\* the parent was found, then deleted with its thread, then the insert was
\* refused
C23_Witness ==
    /\ flight.pc = "done"
    /\ last.op = "Create"
    /\ last.calls = <<"GetByID", "Create">>
    /\ ErrorsIs(last.err, ErrForeignKey)
    /\ \E g \in DOMAIN flight.gone :
          last.id \in GoneIDs(g) /\ Cardinality(GoneIDs(g)) >= 2
    /\ rows # <<>>

\* C24: every stored record has updated_at equal to created_at, no step
\* changes a record that stays stored, and so sorting the roots by
\* updated_at gives the order that sorting them by created_at gives.
C24_Timestamps ==
    [][/\ \A i \in DOMAIN rows' :
             /\ rows'[i].updated_at = rows'[i].created_at
             /\ rows'[i].id \in RowIDs(rows)
                   => rows'[i] = RowOf(rows, rows'[i].id)
       /\ \A order \in {"asc", "desc"} :
             SortRoots(RootRows(rows'), "updated_at", order)
                = SortRoots(RootRows(rows'), "created_at", order)]_vars

\* two roots created at different instants are stored
C24_Witness ==
    /\ last.op = "Create"
    /\ last.err = Nil
    /\ Len(rows) = 2
    /\ rows[1].created_at # rows[2].created_at
    /\ rows[1].parent = Null
    /\ rows[2].parent = Null

\* C25: the page and page_size of an answer of GET /comments are the page
\* number and the page size the trees were selected with, 1 and 50 when
\* the request gives none or none that is a positive number.
C25_PageOfAnswer ==
    Served => /\ last.page = Substituted(last.filter).page
              /\ last.pageSize = Substituted(last.filter).pageSize

(***************************************************************************)
(* CommentUseCase.GetTree called with any filter, the sort key and the     *)
(* direction free: the handler passes on only the values it knows, other   *)
(* callers of the use case are not held to that.                           *)
(***************************************************************************)
SortKeys == {"", "created_at", "id"}
Directions == {"", "asc", "up"}

AnyFilters ==
    {Filter(Null, s, 0, 0, k, d) :
        s \in Searches, k \in SortKeys, d \in Directions}

GetTreeOfFilter(filter) ==
    \E out \in UseCaseGetTree(rows, filter) :
       /\ UNCHANGED <<rows, nextID, flight>>
       /\ last' = [NoRequest EXCEPT
                     !.op = "UseCaseGetTree", !.filter = filter,
                     !.err = out.err, !.panic = out.panic,
                     !.trees = out.trees]

NextFilter == last = NoRequest /\ \E f \in AnyFilters : GetTreeOfFilter(f)

SpecFilter == InitOrder /\ [][NextFilter]_vars

\* the filter with created_at for a sort key that is none of the two and
\* desc for a direction that is none of the two
Treated(filter) ==
    [filter EXCEPT
        !.sortBy = IF @ \in {"created_at", "updated_at"} THEN @
                   ELSE "created_at",
        !.order = IF @ \in {"asc", "desc"} THEN @ ELSE "desc"]

\* the root orders the use case can answer a filter with
RootOrders(filter) ==
    {TopIDs(out.trees) : out \in UseCaseGetTree(rows, filter)}

\* C26: a filter with another sort key or another direction is answered as
\* the filter with created_at and desc in their place is, and the plain
\* path and the search path order the same roots the same way.
C26_OtherSortValues ==
    (last.op = "UseCaseGetTree" /\ last.err = Nil /\ ~last.panic)
    => /\ TopIDs(last.trees) \in RootOrders(Treated(last.filter))
       /\ RootOrders([last.filter EXCEPT !.search = <<>>])
             = RootOrders([last.filter EXCEPT !.search = <<"a">>])

\* C27: with no root id and no search text the total of the answer is the
\* number of top-level trees of pages 1, 2, ... taken together, whatever
\* the page size.
C27_TotalIsTheSumOfPages ==
    (Served /\ last.filter.parentID = Null /\ last.filter.search = <<>>)
    => \A z \in 1..MaxPageSize :
          last.total
             = Len(ConcatPages([last.filter EXCEPT !.pageSize = z],
                               1, Len(rows) + 1))

\* two roots and a reply stored, asked for in pages of one: total 2
C27_Witness ==
    /\ Served
    /\ last.filter.parentID = Null /\ last.filter.search = <<>>
    /\ last.filter.pageSize = 1
    /\ last.total = 2
    /\ Len(rows) = 3

\* the products and sums of the page slice as the integers they stand for
Representable(page, pageSize) ==
    /\ (page - 1) * pageSize <= MaxInt
    /\ (page - 1) * pageSize + pageSize <= MaxInt

\* C28: for every page >= 1 and page size >= 1 the page slice stays within
\* the sorted list, and when (page-1)*pageSize or start+pageSize wraps
\* around the page is empty.
C28_WrapAroundIsEmpty ==
    (last.op = "Paginate" /\ last.page >= 1 /\ last.pageSize >= 1)
    => /\ ~last.panic
       /\ ~Representable(last.page, last.pageSize) => last.list = <<>>

(***************************************************************************)
(* DELETE /comments/{id} store call by store call: the lookup of the       *)
(* comment, then the DELETE of its subtree, with other requests' deletes   *)
(* served in between.                                                      *)
(***************************************************************************)
BeginDelete(id) ==
    LET got == RepoGetByID(rows, id)
        err == Wrap("failed to get comment", got.err)
    IN  /\ flight.pc = "idle"
        /\ last = NoRequest
        /\ UNCHANGED <<rows, nextID>>
        /\ IF got.err # Nil
           THEN /\ last' = [NoRequest EXCEPT
                              !.op = "Delete", !.id = id, !.err = err,
                              !.calls = <<"GetByID">>,
                              !.status = DeleteStatus(err)]
                /\ UNCHANGED flight
           ELSE /\ UNCHANGED last
                /\ flight' = [NoFlight EXCEPT !.pc = "remove", !.id = id]

\* the DELETE, on the table as it is by now; its command tag is dropped
FinishDelete ==
    LET del == RepoDelete(rows, flight.id)
    IN  /\ flight.pc = "remove"
        /\ rows' = del.rows
        /\ UNCHANGED nextID
        /\ flight' = [flight EXCEPT !.pc = "done"]
        /\ last' = [NoRequest EXCEPT
                      !.op = "Delete", !.id = flight.id, !.err = del.err,
                      !.calls = <<"GetByID", "Delete">>,
                      !.status = DeleteStatus(del.err),
                      !.affected = del.affected]

\* another request's DELETE /comments/{id}, served between the two
DeleteBeforeRemoval(id) ==
    /\ flight.pc = "remove"
    /\ DeleteDuring(id)

NextDeleteFlight ==
    \/ \E id \in 1..(MaxRows + 1) : BeginDelete(id)
    \/ FinishDelete
    \/ \E id \in 1..MaxRows : DeleteBeforeRemoval(id)

SpecDeleteFlight == InitWrites /\ [][NextDeleteFlight]_vars

\* C29: of two interleaved deletes of one stored id at most one returns
\* success, and a delete returns success only when its own DELETE removed
\* the record.
C29_OneDeleteSucceeds ==
    (flight.pc = "done" /\ last.op = "Delete" /\ last.err = Nil)
    => /\ last.affected >= 1
       /\ \A g \in DOMAIN flight.gone : flight.gone[g].root # last.id

(***************************************************************************)
(* GET /comments?search= store call by store call, with other requests'   *)
(* POST /comments and DELETE /comments/{id} served between the calls.      *)
(***************************************************************************)
\* POST /comments while the GET is between two calls
CreateDuring(parentID, content) ==
    \E now \in OneInstant :
       LET out == UseCaseCreate(rows, nextID, parentID, content, now)
       IN  /\ flight.pc # "idle"
           /\ Inserts(out.calls) => nextID <= MaxRows
           /\ rows' = out.rows
           /\ nextID' = IF Inserts(out.calls) THEN nextID + 1 ELSE nextID
           /\ UNCHANGED <<last, flight>>

SearchQueries == {Query(Null, <<"a">>, 0, 0, <<"", "">>)}

NextSearchFlight ==
    \/ \E q \in SearchQueries : BeginGetTree(q)
    \/ FindRoot
    \/ ReadAll
    \/ Respond
    \/ \E id \in 1..MaxRows : DeleteDuring(id)
    \/ \E p \in 0..MaxRows, c \in Contents : CreateDuring(p, c)

SpecSearchFlight == InitRead /\ [][NextSearchFlight]_vars

\* C30: whatever creates and deletes are served between the steps of a
\* search, every tree of its answer has a root with no parent and holds a
\* record whose content matches the pattern.
C30_SearchTreesMatch ==
    (Served /\ last.filter.search # <<>>)
    => \A k \in DOMAIN last.trees :
          /\ last.trees[k].comment.parent = Null
          /\ \E c \in TreeComments(last.trees[k]) :
                LikeMatch(SearchPattern(last.filter.search), c.content)

====
